---- MODULE Spec2Model ----
(***************************************************************************)
(* Bulk import engine and import tracker of Simple-Flow-BE.                *)
(*                                                                         *)
(*   src/src/utils/bulk-import.ts     BulkImporter                         *)
(*   src/src/utils/import-tracker.ts  ImportTracker, ImportSession         *)
(*   src/src/models/index.ts          the entity schemas                   *)
(*                                                                         *)
(* An async method is a sequence of actions, one per await: everything     *)
(* the code does between two awaits is one atomic step.  The entity store  *)
(* and the session store are MongoDB collections reached through Mongoose; *)
(* their outcomes (unique-index rejections, schema validation, lost        *)
(* connections) are the environment's choices.                             *)
(***************************************************************************)
EXTENDS Integers, Sequences, FiniteSets, TLC

\* ------------------------------------------------------------------ bounds
MaxRecords == 3       \* longest source file, in records
MaxBatch == 2         \* largest batchSize given in a run configuration
MaxRaceRecords == 2   \* longest source file of a run that a scoped clear runs beside
MaxIds == 2           \* ObjectIds handed out while the tracker is driven directly
MaxLiveRecords == 2   \* longest source file of a run that is followed to its end
MaxLine == 5          \* longest CSV line, in characters
MaxRepeatRecords == 1 \* longest source file of the calls made on one importer
MaxCalls == 2         \* import() calls made on one importer

\* ------------------------------------------------------- program constants
DefaultBatchSize == 1000
HealthScoreMax == 100

Kinds == {"customers", "users"}
UnknownKind == "widgets"
ImportTypes == {"bulk-import", "manual", "seed"}
NoType == "none"
ValidStatuses == {"active", "at_risk", "churned"}
ValidRoles == {"admin", "user"}
SessionStatuses == {"completed", "failed", "partial"}

\* ------------------------------------------------------------ raw records
\* A generic record as the source reader produces it; "" is an absent field.
Raw(name, email, status, hs) ==
  [name |-> name, full_name |-> name, email |-> email, status |-> status,
   role |-> "", health_score |-> hs]

RecordPool ==
  { Raw("Acme", "a@x.io", "active", 80),
    Raw("Bolt", "b@x.io", "", 40),
    Raw("Cord", "", "active", 10),
    Raw("Dune", "d@x.io", "at_risk", 150) }

RECURSIVE SeqsUpTo(_, _)
SeqsUpTo(S, n) ==
  IF n = 0 THEN { <<>> }
  ELSE LET shorter == SeqsUpTo(S, n - 1)
       IN  shorter \cup { Append(s, x) : s \in { t \in shorter : Len(t) = n - 1 }, x \in S }

\* The file at config.filePath: absent, a JSON value of the wrong shape, or
\* a sequence of records.
FilesUpTo(n) ==
  { [state |-> "missing", records |-> <<>>], [state |-> "badshape", records |-> <<>>] }
  \cup { [state |-> "ok", records |-> s] : s \in SeqsUpTo(RecordPool, n) }

Files == FilesUpTo(MaxRecords)

\* batchSize 0 stands for a configuration that leaves batchSize out.
Configs ==
  [model : Kinds \cup {UnknownKind}, batchSize : 0..MaxBatch, clearExisting : BOOLEAN]

\* -------------------------------------------------------------- validation
Thrown(msg) == [ok |-> FALSE, error |-> msg, email |-> "", health_score |-> 0]
Canonical(email, hs) == [ok |-> TRUE, error |-> "", email |-> email, health_score |-> hs]

validateCustomerRecord(record) ==
  IF record.name = "" \/ record.email = ""
  THEN Thrown("Customer must have name and email")
  ELSE IF record.status # "" /\ record.status \notin ValidStatuses
  THEN Thrown("Invalid status")
  ELSE Canonical(record.email, record.health_score)

validateUserRecord(record) ==
  IF record.email = "" \/ record.full_name = ""
  THEN Thrown("User must have email and full_name")
  ELSE IF record.role # "" /\ record.role \notin ValidRoles
  THEN Thrown("Invalid role")
  ELSE Canonical(record.email, 0)

validateAndTransformRecord(record, model) ==
  CASE model = "customers" -> validateCustomerRecord(record)
    [] model = "users" -> validateUserRecord(record)
    [] OTHER -> Thrown("Unknown model")

\* Mongoose schema validation of a canonical document (models/index.ts).
SchemaValid(model, doc) ==
  IF model = "customers" THEN doc.health_score >= 0 /\ doc.health_score <= HealthScoreMax
  ELSE TRUE

\* ------------------------------------------------------------------ state
VARIABLES
  pc,        \* position of import(): idle, clear, load, batch, fallback, done, thrown, crashed
  config,    \* the ImportConfig of the run
  file,      \* what config.filePath holds
  data,      \* the records loadData returned
  stats,     \* BulkImporter.stats
  tracker,   \* BulkImporter.tracker / the ImportTracker under use
  bi,        \* processBatches' loop variable i (0-based start of the batch)
  fi,        \* fallbackIndividualInsert's loop variable i
  coll,      \* the entity collections, one per kind: sets of stored documents
  sessions,  \* the ImportSession collection
  nextId,    \* source of fresh ObjectIds
  stored,    \* history: ids of the documents the run stored
  counted,   \* history: source positions counted as successful / as failed,
             \* and submitted in a bulk insert / in an individual insert
  saves,     \* history: number of session documents the run wrote
  blog,      \* history: the batch in progress or just finished
  cpc,       \* position of clearImportedData: idle, del, sess, done, thrown
  cq,        \* its arguments
  cIds,      \* its local importedIds
  cRes,      \* its result
  cHist,     \* history: what it deleted
  everSaved, \* history: every session document ever persisted
  op,        \* history: the last call made on the tracker's API
  csv,       \* parseCSVLine: the line, the fields it returned
  rec        \* validateCustomerRecord: a raw record, the claims_filed it returned

vars == <<pc, config, file, data, stats, tracker, bi, fi, coll, sessions, nextId,
          stored, counted, saves, blog, cpc, cq, cIds, cRes, cHist, everSaved, op, csv, rec>>

runVars == <<pc, config, file, data, stats, tracker, bi, fi, stored, counted, saves, blog, csv, rec>>
importerVars == <<pc, config, file, data, stats, bi, fi, stored, counted, saves, blog, csv, rec>>
clearVars == <<cpc, cq, cIds, cRes, cHist>>
NoOp == [name |-> "none", known |-> FALSE]
NoLine == [line |-> <<>>, fields |-> <<>>, parsed |-> FALSE]

\* JavaScript values of a usage field of a raw record: the field is absent
\* (undefined), a number (JSON), or a string (CSV, or quoted in JSON) that is
\* empty, decimal digits, or other text; NaN is what parseInt gives back for
\* what it cannot read
Absent == [kind |-> "absent", n |-> 0]
NaN == [kind |-> "NaN", n |-> 0]
Num(n) == [kind |-> "number", n |-> n]
Digits(n) == [kind |-> "digits", n |-> n]
EmptyText == [kind |-> "empty", n |-> 0]
Word == [kind |-> "word", n |-> 0]
FieldValues == {Absent, Num(0), Num(3), Num(5), Digits(0), Digits(7), EmptyText, Word}

NoRecord ==
  [raw |-> [claims_filed |-> Absent, insurance_claims |-> Absent],
   claims_filed |-> Num(0), done |-> FALSE]

\* --------------------------------------------------------- ImportTracker
Times == {1}
Rands == {"k3f9", "q0zx"}
RunRands == {"k3f9"}

NoTracker == [sessionId |-> <<>>, importType |-> NoType, model |-> "", importedIds |-> <<>>]

\* constructor: sessionId from model, import type, Date.now() and Math.random()
NewTracker(model, importType, now, rand) ==
  [sessionId |-> <<model, importType, now, rand>>, importType |-> importType,
   model |-> model, importedIds |-> <<>>]

Includes(ids, id) == \E k \in 1..Len(ids) : ids[k] = id

\* trackRecord without its membership check
trackRecordUnchecked(t, recordId) == [t EXCEPT !.importedIds = Append(@, recordId)]

trackRecord(t, recordId) ==
  IF ~Includes(t.importedIds, recordId)
  THEN [t EXCEPT !.importedIds = Append(@, recordId)]
  ELSE t

\* trackRecords pushing the whole list instead of tracking id by id
trackRecordsConcat(t, recordIds) == [t EXCEPT !.importedIds = @ \o recordIds]

\* trackRecords tracking only the first id of the list
trackRecordsFirstOnly(t, recordIds) ==
  IF recordIds = <<>> THEN t ELSE trackRecord(t, Head(recordIds))

RECURSIVE trackRecords(_, _)
trackRecords(t, recordIds) ==
  IF recordIds = <<>> THEN t
  ELSE trackRecords(trackRecord(t, Head(recordIds)), Tail(recordIds))

\* the document saveSession builds
SessionDoc(t, status) ==
  [sessionId |-> t.sessionId, importType |-> t.importType, modelName |-> t.model,
   recordsImported |-> Len(t.importedIds), importedIds |-> t.importedIds, status |-> status]

getSessionInfo(t) ==
  [sessionId |-> t.sessionId, importType |-> t.importType, model |-> t.model,
   recordsImported |-> Len(t.importedIds)]

\* sessionId is a unique index of the session collection
SessionIdTaken(ss, sid) == \E s \in ss : s.sessionId = sid

\* ---------------------------------------------------------- entity store
Doc(id, email) == [id |-> id, email |-> email]

\* email is a unique index of Customer and of User
Conflicts(docs, email) == \E d \in docs : d.email = email

\* The server's unordered insert: every document is attempted, a unique-index
\* conflict is a write error and the others are stored.
RECURSIVE BulkWrite(_, _)
BulkWrite(todo, acc) ==
  IF todo = <<>> THEN acc
  ELSE LET d == Head(todo) IN
       IF Conflicts(acc.docs, d.email)
       THEN BulkWrite(Tail(todo), [acc EXCEPT !.writeErrors = @ + 1])
       ELSE BulkWrite(Tail(todo),
              [acc EXCEPT !.docs = @ \cup {Doc(acc.next, d.email)},
                          !.inserted = Append(@, [pos |-> d.pos, id |-> acc.next]),
                          !.next = @ + 1])

\* Model.insertMany(docs, {ordered: false}): documents failing schema
\* validation are left out silently; a write error or a lost connection
\* rejects the call, after the server stored what it could.
insertMany(model, docs, existing, next, connected) ==
  LET passing == SelectSeq(docs, LAMBDA d : SchemaValid(model, d))
      start == [docs |-> existing, inserted |-> <<>>, writeErrors |-> 0, next |-> next]
      w == IF connected THEN BulkWrite(passing, start) ELSE start
  IN  [threw |-> ~connected \/ w.writeErrors > 0,
       cause |-> IF ~connected THEN "network"
                 ELSE IF w.writeErrors > 0 THEN "writeErrors" ELSE "none",
       writeErrors |-> w.writeErrors,
       docs |-> w.docs, inserted |-> w.inserted, next |-> w.next]

\* Model.create(doc): schema validation, then one insert
create(model, doc, existing, next, connected) ==
  LET okay == connected /\ SchemaValid(model, doc) /\ ~Conflicts(existing, doc.email)
  IN  [threw |-> ~okay,
       docs |-> IF okay THEN existing \cup {Doc(next, doc.email)} ELSE existing,
       id |-> next,
       next |-> IF okay THEN next + 1 ELSE next]

\* ----------------------------------------------------------- BulkImporter
Min(a, b) == IF a < b THEN a ELSE b
Max(a, b) == IF a > b THEN a ELSE b

\* constructor: the stats object, created once per importer
NewStats ==
  [totalRecords |-> 0, successfulInserts |-> 0, failedInserts |-> 0,
   skippedRecords |-> 0, errors |-> <<>>]

\* the record number without its + 1
ErrorEntryZeroBased(pos, msg, raw) == [record |-> pos - 1, error |-> msg, data |-> raw]

ErrorEntry(pos, msg, raw) == [record |-> pos, error |-> msg, data |-> raw]

\* the window size with its sign turned: the loop index falls instead of rising
BatchSizeBackwards(cfg) ==
  0 - (IF cfg.batchSize # 0 THEN cfg.batchSize ELSE DefaultBatchSize)

\* processBatches: config.batchSize || this.batchSize
BatchSize(cfg) == IF cfg.batchSize # 0 THEN cfg.batchSize ELSE DefaultBatchSize

\* the loop condition off by one: the loop ends before the last record
BatchesDoneEarly(recs, i) == i + 1 >= Len(recs)

\* processBatches' loop condition, negated: no batch is left from index i on
BatchesDone(recs, i) == i >= Len(recs)

\* a slice that runs to the end of the data whatever the batch size
BatchEndWhole(recs, i, size) == Len(recs)

\* a slice one record too short: the last record of a window is left out
BatchEndShort(recs, i, size) == Min(i + size - 1, Len(recs))

\* a slice one record too long: consecutive batches overlap
BatchEndOverlap(recs, i, size) == Min(i + size + 1, Len(recs))

\* data.slice(i, i + batchSize): a negative index counts from the end of the
\* array.  BatchStart is the number of records before the slice, BatchEnd the
\* 1-based source position of its last record.
BatchStart(recs, i) == IF i < 0 THEN Max(Len(recs) + i, 0) ELSE Min(i, Len(recs))

BatchEnd(recs, i, size) ==
  IF i + size < 0 THEN Max(Len(recs) + i + size, 0) ELSE Min(i + size, Len(recs))

\* processBatch's validation pass over source positions lo..hi, in order:
\* the error entries of the records that throw, and the canonical documents
\* of the others (each with its source position).
RECURSIVE ValidatePass(_, _, _, _, _)
ValidatePass(recs, model, lo, hi, acc) ==
  IF lo > hi THEN acc
  ELSE LET v == validateAndTransformRecord(recs[lo], model) IN
       ValidatePass(recs, model, lo + 1, hi,
         IF v.ok
         THEN [acc EXCEPT !.docs = Append(@, [pos |-> lo, email |-> v.email,
                                               health_score |-> v.health_score])]
         ELSE [acc EXCEPT !.errors = Append(@, ErrorEntry(lo, v.error, recs[lo]))])

RECURSIVE SeqField(_, _)
SeqField(s, f) == IF s = <<>> THEN <<>> ELSE <<Head(s)[f]>> \o SeqField(Tail(s), f)

Range(s) == { s[k] : k \in 1..Len(s) }

\* nothing counted or submitted yet; windows are the slices processBatches
\* has handed to processBatch, calls the import() calls made before this one
NoCounts ==
  [succ |-> {}, fail |-> {}, bulk |-> <<>>, single |-> <<>>, windows |-> <<>>, calls |-> 0]

NoBatch ==
  [B |-> 0, V |-> 0, P |-> 0, cause |-> "none", writeErrors |-> 0,
   succ0 |-> 0, fail0 |-> 0, ids0 |-> 0, docs0 |-> 0]

Running == pc \in {"clear", "load", "batch", "fallback"}

\* import(): the tracker is created; connectDB
StartImport(now, rand) ==
  /\ pc = "idle"
  /\ tracker' = NewTracker(config.model, "bulk-import", now, rand)
  /\ pc' = IF config.clearExisting THEN "clear" ELSE "load"
  /\ UNCHANGED <<rec, csv, config, file, data, stats, bi, fi, coll, sessions, nextId,
                 stored, counted, saves, blog>>
  /\ UNCHANGED <<clearVars, everSaved, op>>

\* clearExistingData emptying the collections of every kind
ClearExistingDataEverywhere ==
  /\ pc = "clear"
  /\ IF config.model \in Kinds
     THEN /\ coll' = [k \in Kinds |-> {}]
          /\ pc' = "load"
     ELSE /\ pc' = "thrown"
          /\ UNCHANGED coll
  /\ UNCHANGED <<rec, csv, config, file, data, stats, tracker, bi, fi, sessions, nextId,
                 stored, counted, saves, blog>>
  /\ UNCHANGED <<clearVars, everSaved, op>>

\* clearExistingData: getModel throws for an unknown kind, else deleteMany({})
ClearExistingData ==
  /\ pc = "clear"
  /\ IF config.model \in Kinds
     THEN /\ coll' = [coll EXCEPT ![config.model] = {}]
          /\ pc' = "load"
     ELSE /\ pc' = "thrown"
          /\ UNCHANGED coll
  /\ UNCHANGED <<rec, csv, config, file, data, stats, tracker, bi, fi, sessions, nextId,
                 stored, counted, saves, blog>>
  /\ UNCHANGED <<clearVars, everSaved, op>>

\* loadJSONData taking a JSON value of the wrong shape for an empty array
LoadDataLenient ==
  /\ pc = "load"
  /\ IF file.state # "missing"
     THEN /\ data' = file.records
          /\ stats' = [stats EXCEPT !.totalRecords = Len(file.records)]
          /\ bi' = 0
          /\ pc' = "batch"
     ELSE /\ pc' = "thrown"
          /\ UNCHANGED <<data, stats, bi>>
  /\ UNCHANGED <<rec, csv, config, file, tracker, fi, coll, sessions, nextId,
                 stored, counted, saves, blog>>
  /\ UNCHANGED <<clearVars, everSaved, op>>

\* loadData / loadJSONData, and the head of processBatches
LoadData ==
  /\ pc = "load"
  /\ IF file.state = "ok"
     THEN /\ data' = file.records
          /\ stats' = [stats EXCEPT !.totalRecords = Len(file.records)]
          /\ bi' = 0
          /\ pc' = "batch"
     ELSE /\ pc' = "thrown"
          /\ UNCHANGED <<data, stats, bi>>
  /\ UNCHANGED <<rec, csv, config, file, tracker, fi, coll, sessions, nextId,
                 stored, counted, saves, blog>>
  /\ UNCHANGED <<clearVars, everSaved, op>>

\* processBatch up to the return of insertMany.  With a negative batch size
\* the loop index falls for ever and the slices are empty once it has left
\* the array: the model follows it down to -data.length.
ProcessBatch(connected) ==
  /\ pc = "batch"
  /\ ~BatchesDone(data, bi)
  /\ bi + Len(data) >= 0
  /\ LET size == BatchSize(config)
         lo == BatchStart(data, bi)
         hi == Max(BatchEnd(data, bi, size), lo)
         v == ValidatePass(data, config.model, lo + 1, hi, [docs |-> <<>>, errors |-> <<>>])
         st == [stats EXCEPT !.errors = @ \o v.errors,
                             !.skippedRecords = @ + Len(v.errors)]
         win == [start |-> bi, len |-> hi - lo]
         log == [B |-> hi - lo, V |-> Len(v.docs),
                 P |-> Len(SelectSeq(v.docs, LAMBDA d : SchemaValid(config.model, d))),
                 cause |-> "none", writeErrors |-> 0,
                 succ0 |-> stats.successfulInserts, fail0 |-> stats.failedInserts,
                 ids0 |-> Len(tracker.importedIds),
                 docs0 |-> IF config.model \in Kinds
                           THEN Cardinality(coll[config.model]) ELSE 0]
     IN  IF v.docs = <<>>
         THEN /\ connected
              /\ stats' = st
              /\ bi' = bi + size
              /\ blog' = log
              /\ counted' = [counted EXCEPT !.windows = Append(@, win)]
              /\ UNCHANGED <<pc, tracker, fi, coll, nextId, stored>>
         ELSE LET r == insertMany(config.model, v.docs, coll[config.model], nextId, connected)
                  ids == SeqField(r.inserted, "id")
              IN  /\ coll' = [coll EXCEPT ![config.model] = r.docs]
                  /\ nextId' = r.next
                  /\ stored' = stored \cup Range(ids)
                  /\ blog' = [log EXCEPT !.cause = r.cause, !.writeErrors = r.writeErrors]
                  /\ IF r.threw
                     THEN /\ stats' = st
                          /\ fi' = 0
                          /\ pc' = "fallback"
                          /\ counted' = [counted EXCEPT !.bulk = @ \o SeqField(v.docs, "pos"),
                                                        !.windows = Append(@, win)]
                          /\ UNCHANGED <<tracker, bi>>
                     ELSE /\ tracker' = trackRecords(tracker, ids)
                          /\ stats' = [st EXCEPT !.successfulInserts = @ + Len(r.inserted)]
                          /\ counted' = [counted EXCEPT
                                           !.succ = @ \cup Range(SeqField(r.inserted, "pos")),
                                           !.bulk = @ \o SeqField(v.docs, "pos"),
                                           !.windows = Append(@, win)]
                          /\ bi' = bi + size
                          /\ UNCHANGED <<pc, fi>>
  /\ UNCHANGED <<rec, csv, config, file, data, sessions, saves>>
  /\ UNCHANGED <<clearVars, everSaved, op>>

\* one iteration of fallbackIndividualInsert's loop
FallbackIndividualInsert(connected) ==
  /\ pc = "fallback"
  /\ LET size == BatchSize(config)
         hi == BatchEnd(data, bi, size)
         pos == bi + fi + 1
         v == validateAndTransformRecord(data[pos], config.model)
         r == create(config.model, v, coll[config.model], nextId, connected)
     IN  /\ IF ~v.ok
            THEN /\ connected
                 /\ stats' = [stats EXCEPT
                                !.errors = Append(@, ErrorEntry(pos, v.error, data[pos])),
                                !.failedInserts = @ + 1]
                 /\ counted' = [counted EXCEPT !.fail = @ \cup {pos}]
                 /\ UNCHANGED <<tracker, coll, nextId, stored>>
            ELSE IF r.threw
            THEN /\ stats' = [stats EXCEPT
                                !.errors = Append(@, ErrorEntry(pos, "insert failed", data[pos])),
                                !.failedInserts = @ + 1]
                 /\ counted' = [counted EXCEPT !.fail = @ \cup {pos},
                                               !.single = Append(@, pos)]
                 /\ UNCHANGED <<tracker, coll, nextId, stored>>
            ELSE /\ coll' = [coll EXCEPT ![config.model] = r.docs]
                 /\ nextId' = r.next
                 /\ stored' = stored \cup {r.id}
                 /\ tracker' = trackRecord(tracker, r.id)
                 /\ stats' = [stats EXCEPT !.successfulInserts = @ + 1]
                 /\ counted' = [counted EXCEPT !.succ = @ \cup {pos},
                                               !.single = Append(@, pos)]
         /\ IF pos < hi
            THEN /\ fi' = fi + 1
                 /\ UNCHANGED <<pc, bi>>
            ELSE /\ fi' = 0
                 /\ bi' = bi + size
                 /\ pc' = "batch"
  /\ UNCHANGED <<rec, csv, config, file, data, sessions, saves, blog>>
  /\ UNCHANGED <<clearVars, everSaved, op>>

\* the status with every failure making the run failed
RunStatusAnyFailure(st) ==
  IF st.failedInserts > 0 THEN "failed" ELSE "completed"

\* the status with skipped records taken for failures
RunStatusSkippedFails(st) ==
  IF st.failedInserts + st.skippedRecords > 0
  THEN (IF st.successfulInserts > 0 THEN "partial" ELSE "failed")
  ELSE "completed"

\* import(): the status of the run
RunStatus(st) ==
  IF st.failedInserts > 0
  THEN (IF st.successfulInserts > 0 THEN "partial" ELSE "failed")
  ELSE "completed"

\* import() after the last batch: tracker.saveSession(status), then return
SaveSession(connected) ==
  /\ pc = "batch"
  /\ BatchesDone(data, bi)
  /\ IF connected /\ ~SessionIdTaken(sessions, tracker.sessionId)
     THEN /\ sessions' = sessions \cup {SessionDoc(tracker, RunStatus(stats))}
          /\ everSaved' = everSaved \cup {SessionDoc(tracker, RunStatus(stats))}
          /\ saves' = saves + 1
          /\ pc' = "done"
     ELSE /\ pc' = "thrown"
          /\ UNCHANGED <<sessions, saves, everSaved>>
  /\ UNCHANGED <<rec, csv, config, file, data, stats, tracker, bi, fi, coll, nextId,
                 stored, counted, blog>>
  /\ UNCHANGED <<clearVars, op>>

\* the process dies between two steps of the run
Crash ==
  /\ Running
  /\ pc' = "crashed"
  /\ UNCHANGED <<rec, csv, config, file, data, stats, tracker, bi, fi, coll, sessions, nextId,
                 stored, counted, saves, blog>>
  /\ UNCHANGED <<clearVars, everSaved, op>>

OrganicDocs == { {}, {Doc(0, "a@x.io")} }

\* no import() has been called on the importer, no tracker exists
ImporterIdle ==
  /\ pc = "idle"
  /\ data = <<>>
  /\ stats = NewStats
  /\ tracker = NoTracker
  /\ bi = 0
  /\ fi = 0
  /\ stored = {}
  /\ counted = NoCounts
  /\ saves = 0
  /\ blog = NoBatch
  /\ op = NoOp

\* loadCSVData has read no line, no usage field has been validated
CsvIdle == csv = NoLine /\ rec = NoRecord

\* clearImportedData has not been called
ClearIdle ==
  /\ cpc = "idle"
  /\ cq = [model |-> "", importType |-> NoType]
  /\ cIds = {}
  /\ cRes = [deletedCount |-> 0, sessionsCleaned |-> 0]
  /\ cHist = [docs |-> {}, sessions |-> {}, afterRun |-> FALSE]

Init ==
  /\ ImporterIdle
  /\ CsvIdle
  /\ ClearIdle
  /\ config \in Configs
  /\ file \in Files
  /\ \E S \in OrganicDocs : coll = [k \in Kinds |-> S]
  /\ sessions = {}
  /\ everSaved = {}
  /\ nextId = 1

Next ==
  \/ \E now \in Times, rand \in RunRands : StartImport(now, rand)
  \/ ClearExistingData
  \/ LoadData
  \/ \E connected \in BOOLEAN : ProcessBatch(connected)
  \/ \E connected \in BOOLEAN : FallbackIndividualInsert(connected)
  \/ \E connected \in BOOLEAN : SaveSession(connected)
  \/ Crash

Spec == Init /\ [][Next]_vars

\* ------------------------------------------- ImportTracker, static methods
\* the query without its importType restriction
MatchingSessionsAnyType(ss, model, importType) ==
  { s \in ss : s.modelName = model /\ s.status \in {"completed", "partial"} }

\* the query of getImportedIds and of clearImportedData's session clean-up;
\* NoType is a call without importType
MatchingSessions(ss, model, importType) ==
  { s \in ss : /\ s.modelName = model
               /\ s.status \in {"completed", "partial"}
               /\ (importType # NoType => s.importType = importType) }

\* the ids of the matching sessions, without duplicates
getImportedIds(ss, model, importType) ==
  UNION { Range(s.importedIds) : s \in MatchingSessions(ss, model, importType) }

\* the filter of the entity deleteMany
DeleteFilter(docs, ids) == { d \in docs : d.id \in ids }

\* clearImportedData up to the entity deleteMany
ClearStart(model, importType) ==
  /\ cpc = "idle"
  /\ cq' = [model |-> model, importType |-> importType]
  /\ cHist' = [docs |-> {}, sessions |-> {}, afterRun |-> (pc = "done")]
  /\ LET ids == getImportedIds(sessions, model, importType) IN
       IF ids = {}
       THEN /\ cRes' = [deletedCount |-> 0, sessionsCleaned |-> 0]
            /\ cpc' = "done"
            /\ cIds' = {}
       ELSE IF model \notin Kinds
       THEN /\ cpc' = "thrown"
            /\ UNCHANGED <<cIds, cRes>>
       ELSE /\ cIds' = ids
            /\ cpc' = "del"
            /\ UNCHANGED cRes
  /\ UNCHANGED <<runVars, coll, sessions, nextId, everSaved, op>>

\* MongooseModel.deleteMany({ _id: { $in: importedIds } })
ClearDelete ==
  /\ cpc = "del"
  /\ LET gone == DeleteFilter(coll[cq.model], cIds) IN
       /\ coll' = [coll EXCEPT ![cq.model] = @ \ gone]
       /\ cRes' = [cRes EXCEPT !.deletedCount = Cardinality(gone)]
       /\ cHist' = [cHist EXCEPT !.docs = gone]
  /\ cpc' = "sess"
  /\ UNCHANGED <<runVars, cq, cIds, sessions, nextId, everSaved, op>>

\* ImportSession.deleteMany(query), then return
ClearSessions ==
  /\ cpc = "sess"
  /\ LET gone == MatchingSessions(sessions, cq.model, cq.importType) IN
       /\ sessions' = sessions \ gone
       /\ cRes' = [cRes EXCEPT !.sessionsCleaned = Cardinality(gone)]
       /\ cHist' = [cHist EXCEPT !.sessions = gone]
  /\ cpc' = "done"
  /\ UNCHANGED <<runVars, cq, cIds, coll, nextId, everSaved, op>>

\* ------------------------------------- the tracker driven by its own API
\* A client other than BulkImporter (a seed or a manual import) constructs a
\* tracker, tracks ids and saves; unrelated actors write to the collections.
TrackerTypes == {"bulk-import", "manual"}
Emails == {"a@x.io", "b@x.io"}

Construct(model, importType, now, rand) ==
  /\ tracker' = NewTracker(model, importType, now, rand)
  /\ op' = [name |-> "new", known |-> FALSE]
  /\ UNCHANGED <<importerVars, clearVars, coll, sessions, nextId, everSaved>>

CallTrackRecord(recordId) ==
  /\ tracker # NoTracker
  /\ tracker' = trackRecord(tracker, recordId)
  /\ op' = [name |-> "trackRecord", known |-> Includes(tracker.importedIds, recordId)]
  /\ UNCHANGED <<importerVars, clearVars, coll, sessions, nextId, everSaved>>

CallTrackRecords(recordIds) ==
  /\ tracker # NoTracker
  /\ tracker' = trackRecords(tracker, recordIds)
  /\ op' = [name |-> "trackRecords",
            known |-> \E id \in Range(recordIds) : Includes(tracker.importedIds, id)]
  /\ UNCHANGED <<importerVars, clearVars, coll, sessions, nextId, everSaved>>

\* saveSession(status): session.save() is rejected when the sessionId exists
CallSaveSession(status) ==
  /\ tracker # NoTracker
  /\ IF SessionIdTaken(sessions, tracker.sessionId)
     THEN UNCHANGED <<sessions, everSaved>>
     ELSE /\ sessions' = sessions \cup {SessionDoc(tracker, status)}
          /\ everSaved' = everSaved \cup {SessionDoc(tracker, status)}
  /\ op' = [name |-> "saveSession", known |-> FALSE]
  /\ UNCHANGED <<importerVars, clearVars, tracker, coll, nextId>>

\* an unrelated actor stores a document; the tracker never reads a
\* document's address, so it is stored under the first address that is free
FreeEmails(docs) == { e \in Emails : ~Conflicts(docs, e) }

OrganicInsert(kind) ==
  /\ nextId <= MaxIds
  /\ FreeEmails(coll[kind]) # {}
  /\ coll' = [coll EXCEPT ![kind] = @ \cup {Doc(nextId, CHOOSE e \in FreeEmails(coll[kind]) : TRUE)}]
  /\ nextId' = nextId + 1
  /\ UNCHANGED <<runVars, clearVars, sessions, everSaved, op>>

\* an unrelated actor deletes a document
OrganicDelete(kind) ==
  /\ \E d \in coll[kind] : coll' = [coll EXCEPT ![kind] = @ \ {d}]
  /\ UNCHANGED <<runVars, clearVars, sessions, nextId, everSaved, op>>

IdleDriver ==
  /\ config = [model |-> "customers", batchSize |-> 0, clearExisting |-> FALSE]
  /\ file = [state |-> "missing", records |-> <<>>]

InitTracker ==
  /\ ImporterIdle
  /\ CsvIdle
  /\ ClearIdle
  /\ IdleDriver
  /\ coll = [k \in Kinds |-> {}]
  /\ sessions = {}
  /\ everSaved = {}
  /\ nextId = 1

NextTracker ==
  \/ \E now \in Times, rand \in Rands : Construct("customers", "manual", now, rand)
  \/ \E recordId \in 1..MaxIds : CallTrackRecord(recordId)
  \/ \E recordIds \in SeqsUpTo(1..MaxIds, 2) \ { <<>> } : CallTrackRecords(recordIds)
  \/ \E status \in SessionStatuses : CallSaveSession(status)

SpecTracker == InitTracker /\ [][NextTracker]_vars

\* ------------------------------ the static methods against a filled store
Ascending(s) == \A k \in 1..(Len(s) - 1) : s[k] < s[k + 1]

\* the session documents trackers of the two kinds and types can have saved
SavedDocs ==
  { SessionDoc(trackRecords(NewTracker(model, importType, now, "k3f9"), ids), status) :
      model \in Kinds, importType \in TrackerTypes, now \in Times,
      ids \in { s \in SeqsUpTo(1..MaxIds, MaxIds) : Ascending(s) },
      status \in SessionStatuses }

\* session stores of at most two sessions
SessionStores ==
  { {} } \cup { {a} : a \in SavedDocs }
         \cup UNION { { {a, b} : b \in { c \in SavedDocs : c.sessionId # a.sessionId } } :
                       a \in SavedDocs }

InitStore ==
  /\ ImporterIdle
  /\ CsvIdle
  /\ ClearIdle
  /\ IdleDriver
  /\ coll = [k \in Kinds |-> {}]
  /\ sessions \in SessionStores
  /\ everSaved = sessions
  /\ nextId = 1

NextStore ==
  \/ \E kind \in Kinds : OrganicInsert(kind)
  \/ \E kind \in Kinds : OrganicDelete(kind)
  \/ \E model \in Kinds, importType \in {"manual", NoType} : ClearStart(model, importType)
  \/ ClearDelete
  \/ ClearSessions

SpecStore == InitStore /\ [][NextStore]_vars

\* --------------------------------------- a scoped clear beside an import
\* the session and the document an earlier run of the same kind left behind
PriorSession(model) ==
  SessionDoc(trackRecord(NewTracker(model, "bulk-import", 0, "k3f9"), 0), "completed")

InitClear ==
  /\ ImporterIdle
  /\ CsvIdle
  /\ ClearIdle
  /\ config \in { c \in Configs : c.model \in Kinds }
  /\ file \in FilesUpTo(MaxRaceRecords)
  /\ \/ /\ \E S \in OrganicDocs : coll = [k \in Kinds |-> S]
        /\ sessions = {}
     \/ /\ coll = [k \in Kinds |-> IF k = config.model THEN {Doc(0, "a@x.io")} ELSE {}]
        /\ sessions = {PriorSession(config.model)}
  /\ everSaved = sessions
  /\ nextId = 1

NextClear ==
  \/ Next
  \/ ClearStart(config.model, NoType)
  \/ ClearDelete
  \/ ClearSessions

SpecClear == InitClear /\ [][NextClear]_vars

\* ------------------------------------------- a run that is never cut short
\* The process stays alive: import() is resumed after each await.
InitLive ==
  /\ ImporterIdle
  /\ CsvIdle
  /\ ClearIdle
  /\ config \in Configs
  /\ file \in FilesUpTo(MaxLiveRecords)
  /\ \E S \in OrganicDocs : coll = [k \in Kinds |-> S]
  /\ sessions = {}
  /\ everSaved = {}
  /\ nextId = 1

NextLive ==
  \/ \E now \in Times, rand \in RunRands : StartImport(now, rand)
  \/ ClearExistingData
  \/ LoadData
  \/ \E connected \in BOOLEAN : ProcessBatch(connected)
  \/ \E connected \in BOOLEAN : FallbackIndividualInsert(connected)
  \/ \E connected \in BOOLEAN : SaveSession(connected)

SpecLive == InitLive /\ [][NextLive]_vars /\ WF_vars(NextLive)

\* ----------------------------------- several import() calls on one importer
\* importAllData: one BulkImporter, one import() call after the other, each
\* with its own configuration and file.  The importer keeps its stats object.
\* Every call leaves batchSize and clearExisting out; its file holds valid
\* and invalid records, and a later call has a later Date.now().
RepeatConfigs == [model : Kinds, batchSize : {0}, clearExisting : {FALSE}]
RepeatPool == { Raw("Acme", "a@x.io", "active", 80), Raw("Cord", "", "active", 10) }
RepeatFiles == { [state |-> "ok", records |-> s] : s \in SeqsUpTo(RepeatPool, MaxRepeatRecords) }

\* the next import() call on the same importer, after the last one returned
ImportAgain(cfg, f) ==
  /\ pc = "done"
  /\ counted.calls + 1 < MaxCalls
  /\ config' = cfg
  /\ file' = f
  /\ pc' = "idle"
  /\ data' = <<>>
  /\ bi' = 0
  /\ fi' = 0
  /\ stored' = {}
  /\ counted' = [NoCounts EXCEPT !.calls = counted.calls + 1]
  /\ saves' = 0
  /\ blog' = NoBatch
  /\ UNCHANGED <<stats, tracker, coll, sessions, nextId, clearVars, everSaved, op, csv, rec>>

InitRepeat ==
  /\ ImporterIdle
  /\ CsvIdle
  /\ ClearIdle
  /\ config \in RepeatConfigs
  /\ file \in RepeatFiles
  /\ \E S \in OrganicDocs : coll = [k \in Kinds |-> S]
  /\ sessions = {}
  /\ everSaved = {}
  /\ nextId = 1

NextRepeat ==
  \/ \E rand \in RunRands : StartImport(counted.calls + 1, rand)
  \/ LoadData
  \/ \E connected \in BOOLEAN : ProcessBatch(connected)
  \/ \E connected \in BOOLEAN : FallbackIndividualInsert(connected)
  \/ \E connected \in BOOLEAN : SaveSession(connected)
  \/ \E cfg \in RepeatConfigs, f \in RepeatFiles : ImportAgain(cfg, f)

SpecRepeat == InitRepeat /\ [][NextRepeat]_vars

\* ------------------------------------------- any batchSize a caller can give
\* ImportConfig.batchSize is a number the caller chooses (the CLI passes
\* parseInt of its argument): negative values are among them.
InitWindow ==
  /\ ImporterIdle
  /\ CsvIdle
  /\ ClearIdle
  /\ config \in [model : {"customers"}, batchSize : (0 - MaxBatch)..MaxBatch,
                  clearExisting : {FALSE}]
  /\ file \in { f \in FilesUpTo(MaxLiveRecords) : f.state = "ok" }
  /\ coll = [k \in Kinds |-> {}]
  /\ sessions = {}
  /\ everSaved = {}
  /\ nextId = 1

NextWindow ==
  \/ \E now \in Times, rand \in RunRands : StartImport(now, rand)
  \/ LoadData
  \/ \E connected \in BOOLEAN : ProcessBatch(connected)
  \/ \E connected \in BOOLEAN : FallbackIndividualInsert(connected)
  \/ \E connected \in BOOLEAN : SaveSession(connected)

SpecWindow == InitWindow /\ [][NextWindow]_vars

\* ------------------------------------------------------------ parseCSVLine
\* A line is a sequence of characters; one letter stands for every character
\* that is neither a comma nor a quote.
Comma == ","
Quote == "\""
Chars == {"A", Comma, Quote}
Lines == SeqsUpTo(Chars, MaxLine)

\* a parser that knows no quoting: every comma splits, quotes are dropped
RECURSIVE SplitEveryComma(_, _, _)
SplitEveryComma(line, i, st) ==
  IF i > Len(line) THEN Append(st.result, st.current)
  ELSE LET char == line[i] IN
       SplitEveryComma(line, i + 1,
         IF char = Quote THEN st
         ELSE IF char = Comma
         THEN [st EXCEPT !.result = Append(@, st.current), !.current = <<>>]
         ELSE [st EXCEPT !.current = Append(@, char)])

parseCSVLineNoQuoting(line) ==
  SplitEveryComma(line, 1, [result |-> <<>>, current |-> <<>>, inQuotes |-> FALSE])

\* parseCSVLine's loop from character i on, then result.push(current)
RECURSIVE ParseFrom(_, _, _)
ParseFrom(line, i, st) ==
  IF i > Len(line) THEN Append(st.result, st.current)
  ELSE LET char == line[i] IN
       ParseFrom(line, i + 1,
         IF char = Quote THEN [st EXCEPT !.inQuotes = ~@]
         ELSE IF char = Comma /\ ~st.inQuotes
         THEN [st EXCEPT !.result = Append(@, st.current), !.current = <<>>]
         ELSE [st EXCEPT !.current = Append(@, char)])

parseCSVLine(line) ==
  ParseFrom(line, 1, [result |-> <<>>, current |-> <<>>, inQuotes |-> FALSE])

\* loadCSVData's line handler up to the return of parseCSVLine
ParseLine ==
  /\ ~csv.parsed
  /\ csv' = [csv EXCEPT !.fields = parseCSVLine(csv.line), !.parsed = TRUE]
  /\ UNCHANGED <<pc, config, file, data, stats, tracker, bi, fi, coll, sessions, nextId,
                 stored, counted, saves, blog, clearVars, everSaved, op, rec>>

InitCSV ==
  /\ ImporterIdle
  /\ ClearIdle
  /\ IdleDriver
  /\ coll = [k \in Kinds |-> {}]
  /\ sessions = {}
  /\ everSaved = {}
  /\ nextId = 1
  /\ csv \in { [line |-> l, fields |-> <<>>, parsed |-> FALSE] : l \in Lines }
  /\ rec = NoRecord

NextCSV == ParseLine

SpecCSV == InitCSV /\ [][NextCSV]_vars

\* -------------------------------------- validateCustomerRecord, claims_filed
\* JavaScript's truthiness, a || b, and parseInt on the values above
Truthy(v) ==
  CASE v.kind = "number" -> v.n # 0
    [] v.kind \in {"digits", "word"} -> TRUE
    [] OTHER -> FALSE

OrElse(a, b) == IF Truthy(a) THEN a ELSE b

parseInt(v) ==
  CASE v.kind = "number" -> v
    [] v.kind = "digits" -> Num(v.n)
    [] OTHER -> NaN

\* parseInt(record.claims_filed || record.insurance_claims) || 0
claimsFiled(record) ==
  OrElse(parseInt(OrElse(record.claims_filed, record.insurance_claims)), Num(0))

\* validateCustomerRecord building feature_usage.claims_filed
ValidateCustomer ==
  /\ ~rec.done
  /\ rec' = [rec EXCEPT !.claims_filed = claimsFiled(rec.raw), !.done = TRUE]
  /\ UNCHANGED <<pc, config, file, data, stats, tracker, bi, fi, coll, sessions, nextId,
                 stored, counted, saves, blog, clearVars, everSaved, op, csv>>

InitRecord ==
  /\ ImporterIdle
  /\ ClearIdle
  /\ IdleDriver
  /\ coll = [k \in Kinds |-> {}]
  /\ sessions = {}
  /\ everSaved = {}
  /\ nextId = 1
  /\ csv = NoLine
  /\ rec \in { [raw |-> r, claims_filed |-> Num(0), done |-> FALSE] :
                 r \in [claims_filed : FieldValues, insurance_claims : FieldValues] }

NextRecord == ValidateCustomer

SpecRecord == InitRecord /\ [][NextRecord]_vars

\* ================================================================ claims
Invalid(p) == ~validateAndTransformRecord(data[p], config.model).ok

OwnSessions == { s \in sessions : s.sessionId = tracker.sessionId }

NoDuplicates(ids) == \A i, j \in 1..Len(ids) : ids[i] = ids[j] => i = j

Occurrences(ids, id) == Cardinality({ k \in 1..Len(ids) : ids[k] = id })

\* the ids some persisted session of the kind (and of the import type, when
\* one is given) has tracked
TrackedFor(ss, model, importType) ==
  UNION { Range(s.importedIds) :
            s \in { x \in ss : /\ x.modelName = model
                               /\ (importType # NoType => x.importType = importType) } }

\* C1: the stats of a run that returned normally satisfy
\* successfulInserts + failedInserts + skippedRecords = totalRecords.
C1_CountsAddUp ==
  pc = "done" =>
    stats.successfulInserts + stats.failedInserts + stats.skippedRecords
      = stats.totalRecords

\* C2: a step of clearImportedData(kind, importType?) removes a document only
\* from the collection of that kind and only if a persisted session of that
\* kind (and import type, when given) tracked its id, whatever unrelated
\* actors write to the collections in between.
C2_ClearOnlyTracked ==
  [][ cpc' # cpc =>
        \A k \in Kinds : \A d \in coll[k] \ coll'[k] :
          /\ k = cq'.model
          /\ d.id \in TrackedFor(everSaved, cq'.model, cq'.importType) ]_vars

\* a clear with an import type has deleted a document and left one that no
\* matching session tracked
C2_Witness ==
  /\ cpc = "sess"
  /\ cq.importType # NoType
  /\ cHist.docs # {}
  /\ \E d \in coll[cq.model] : d.id \notin TrackedFor(everSaved, cq.model, cq.importType)

\* C3: the session a run persisted lists the id of every document the run
\* stored in the destination collection.
C3_StoredIdsTracked ==
  \A s \in OwnSessions : saves > 0 => stored \subseteq Range(s.importedIds)

\* C4: a record that fails validation is in stats.errors with its raw record,
\* counts as skipped, and is never counted as a successful or a failed insert.
C4_InvalidOnlySkipped ==
  pc = "done" =>
    /\ \A p \in 1..Len(data) :
         Invalid(p) =>
           /\ \E k \in 1..Len(stats.errors) :
                stats.errors[k].record = p /\ stats.errors[k].data = data[p]
           /\ p \notin counted.succ \cup counted.fail
    /\ stats.skippedRecords = Cardinality({ p \in 1..Len(data) : Invalid(p) })

\* C5: after the only run of a kind has persisted its session, an unscoped
\* clearImportedData(kind) returns as deletedCount the number of documents the
\* run stored, removes exactly those documents and exactly the sessions that
\* tracked them.
C5_ClearRemovesWhatRunStored ==
  (cpc = "done" /\ cHist.afterRun /\ Cardinality(everSaved) = 1) =>
    /\ cRes.deletedCount = Cardinality(stored)
    /\ { d.id : d \in cHist.docs } = stored
    /\ cHist.sessions = { s \in everSaved : Range(s.importedIds) \cap stored # {} }

\* C6: a batch of B valid records whose bulk insert threw on exactly one
\* unique-key violation ends with B-1 more successful inserts, one more
\* failed insert, B-1 more tracked ids and B-1 more documents.
C6_OneDuplicateFallback ==
  ( /\ pc = "batch"
    /\ blog.B > 0 /\ blog.P = blog.B
    /\ blog.cause = "writeErrors" /\ blog.writeErrors = 1 ) =>
    /\ stats.successfulInserts = blog.succ0 + blog.B - 1
    /\ stats.failedInserts = blog.fail0 + 1
    /\ Len(tracker.importedIds) = blog.ids0 + blog.B - 1
    /\ Cardinality(coll[config.model]) = blog.docs0 + blog.B - 1

\* C7: the tracker's importedIds and the importedIds of every session it
\* persisted hold no id twice, and recordsImported is the number of ids.
C7_TrackedIdsDistinctAndCounted ==
  /\ NoDuplicates(tracker.importedIds)
  /\ getSessionInfo(tracker).recordsImported = Cardinality(Range(tracker.importedIds))
  /\ \A s \in sessions :
       /\ NoDuplicates(s.importedIds)
       /\ s.recordsImported = Cardinality(Range(s.importedIds))

\* a tracker of two ids was given one of them again, beside a persisted
\* session of two ids
C7_Witness ==
  /\ op.name = "trackRecord"
  /\ op.known
  /\ Len(tracker.importedIds) >= 2
  /\ \E s \in sessions : s.recordsImported >= 2

\* C8: trackRecord(id) of an id that is already tracked changes neither
\* importedIds nor recordsImported, and after trackRecords(ids) every id of
\* the list is tracked exactly once, also when an earlier call tracked it.
C8_TrackingIdempotent ==
  [][ /\ \A id \in 1..MaxIds :
           (CallTrackRecord(id) /\ Includes(tracker.importedIds, id)) =>
             /\ tracker'.importedIds = tracker.importedIds
             /\ getSessionInfo(tracker').recordsImported
                  = getSessionInfo(tracker).recordsImported
      /\ \A ids \in SeqsUpTo(1..MaxIds, 2) :
           CallTrackRecords(ids) =>
             \A id \in Range(ids) : Occurrences(tracker'.importedIds, id) = 1 ]_vars

\* trackRecords was called with an id an earlier call had tracked
C8_Witness ==
  /\ op.name = "trackRecords"
  /\ op.known
  /\ Len(tracker.importedIds) >= 2

\* C9: a run writes its session once, after the last batch and its fallback;
\* before that, and after a crash, no session of the run exists.
C9_SessionSavedOnceAtEnd ==
  /\ pc = "done" => saves = 1 /\ Cardinality(OwnSessions) = 1
  /\ pc # "done" => saves = 0 /\ OwnSessions = {}
  /\ saves > 0 => bi >= Len(data) /\ fi = 0

\* a run of several batches, one of them through the fallback, has returned
C9_Witness ==
  /\ pc = "done"
  /\ saves = 1
  /\ stored # {}
  /\ counted.fail # {}
  /\ Len(data) > BatchSize(config)

\* C10: a run that aborts because its source cannot be loaded persists one
\* session document with status failed.
C10_AbortSavesFailedSession ==
  (pc = "thrown" /\ file.state # "ok" /\ (config.clearExisting => config.model \in Kinds)) =>
    \E s \in sessions : s.sessionId = tracker.sessionId /\ s.status = "failed"

C12_UnknownKindAborts ==
  config.model \notin Kinds => pc \notin {"batch", "fallback", "done"}

\* C13: with the source file missing or of the wrong JSON shape the run
\* throws before any batch: no document is inserted and no session with
\* status completed or partial is persisted.
C13_SourceErrorAborts ==
  file.state # "ok" =>
    /\ pc \in {"idle", "clear", "load", "thrown", "crashed"}
    /\ stored = {}
    /\ nextId = 1
    /\ counted.bulk = <<>> /\ counted.single = <<>>
    /\ \A s \in sessions : s.status \notin {"completed", "partial"}

\* a run for a known kind has thrown on a JSON value of the wrong shape
C13_Witness ==
  /\ pc = "thrown"
  /\ file.state = "badshape"
  /\ config.model \in Kinds

\* C14: once the records are loaded the run reaches the end of its batches
\* and then returns or fails on the session write: no validation error and no
\* insert error throws out of processBatches or keeps a later batch from
\* being processed.
C14_RunReachesFinalizing ==
  /\ (pc \in {"batch", "fallback"}) ~> (pc = "batch" /\ BatchesDone(data, bi))
  /\ (pc \in {"batch", "fallback"}) ~> (pc \in {"done", "thrown"})
  /\ [][(pc \in {"batch", "fallback"} /\ pc' = "thrown") => BatchesDone(data, bi)]_vars

\* a run with a skipped record, a failed bulk insert and a failed individual
\* insert has returned
C14_Witness ==
  /\ pc = "done"
  /\ stats.skippedRecords > 0
  /\ counted.fail # {}
  /\ blog.cause # "none"

\* the sessions of the kind (and of the import type, when one is given)
SessionsFor(ss, model, importType) ==
  { s \in ss : /\ s.modelName = model
               /\ (importType # NoType => s.importType = importType) }

\* C15: when clearImportedData(kind, importType?) has returned, the session
\* store holds no session of that kind (and import type), also when the
\* sessions tracked no id, and sessionsCleaned is the number of sessions
\* removed.
C15_ClearRemovesSessions ==
  cpc = "done" =>
    /\ SessionsFor(sessions, cq.model, cq.importType) = {}
    /\ cRes.sessionsCleaned = Cardinality(everSaved \ sessions)

\* C16: getImportedIds(kind, importType?), as clearImportedData calls it,
\* returns the union of importedIds over every persisted session of that kind
\* (and import type).
C16_ImportedIdsUnion ==
  cpc \in {"del", "sess", "done"} =>
    cIds = UNION { Range(s.importedIds) :
                     s \in SessionsFor(everSaved, cq.model, cq.importType) }

\* C17: with clearExisting the run empties the destination collection before
\* its first insert, so that afterwards the collection holds only what the
\* run stored; no other step of a run deletes a document, and a run without
\* clearExisting deletes none.
C17_ClearExistingFrame ==
  /\ []( ( /\ config.clearExisting
           /\ config.model \in Kinds
           /\ pc \in {"load", "batch", "fallback", "done"} ) =>
           { d.id : d \in coll[config.model] } \subseteq stored )
  /\ [][ \A k \in Kinds :
           coll[k] \ coll'[k] # {} =>
             /\ config.clearExisting
             /\ pc = "clear"
             /\ k = config.model
             /\ coll'[k] = {}
             /\ stored = {} ]_vars

\* a run with clearExisting has stored documents and returned; the document
\* of the other kind is still there
C17_Witness ==
  /\ pc = "done"
  /\ config.clearExisting
  /\ stored # {}
  /\ \E k \in Kinds \ {config.model} : \E d \in coll[k] : d.id = 0

\* C18: a newly constructed tracker has a sessionId that no earlier tracker
\* had, also one of the same kind and import type constructed at the same
\* timestamp (the earlier trackers seen through the sessions they saved).
C18_SessionIdsDiffer ==
  op.name = "new" => ~SessionIdTaken(everSaved, tracker.sessionId)

\* the commas of the line that an even number of quotes precede
SplitPoints(line) ==
  { i \in 1..Len(line) :
      /\ line[i] = Comma
      /\ Cardinality({ k \in 1..(i - 1) : line[k] = Quote }) % 2 = 0 }

\* the n-th of them from the left; 0 and the end of the line close the row
NthSplit(line, n) ==
  IF n = 0 THEN 0
  ELSE IF n > Cardinality(SplitPoints(line)) THEN Len(line) + 1
  ELSE CHOOSE p \in SplitPoints(line) :
         Cardinality({ q \in SplitPoints(line) : q < p }) = n - 1

\* C19: parseCSVLine returns one field more than the line has commas preceded
\* by an even number of quotes, and the fields are the stretches between
\* those commas with the quote characters removed.
C19_SplitsOutsideQuotes ==
  csv.parsed =>
    LET n == Cardinality(SplitPoints(csv.line)) IN
      /\ Len(csv.fields) = n + 1
      /\ \A k \in 1..(n + 1) :
           csv.fields[k] =
             SelectSeq(SubSeq(csv.line, NthSplit(csv.line, k - 1) + 1,
                              NthSplit(csv.line, k) - 1),
                       LAMBDA c : c # Quote)

\* a line with a comma inside quotes and a comma outside has been parsed,
\* and the quoted comma is part of a field
C19_Witness ==
  /\ csv.parsed
  /\ SplitPoints(csv.line) # {}
  /\ \E i \in 1..Len(csv.line) : csv.line[i] = Comma /\ i \notin SplitPoints(csv.line)
  /\ \E k \in 1..Len(csv.fields) : Comma \in Range(csv.fields[k])

\* C20: a record is submitted at most once in a bulk insert and at most once
\* in an individual insert, the individual one only after the bulk one; the
\* fallback runs only after the batch's bulk insert threw and at most once
\* per batch; a record counted as failed is never submitted again.
C20_AtMostTwoSubmissions ==
  /\ [](\A p \in 1..Len(data) :
          /\ Occurrences(counted.bulk, p) <= 1
          /\ Occurrences(counted.single, p) <= 1
          /\ Includes(counted.single, p) => Includes(counted.bulk, p)
          /\ Occurrences(SeqField(stats.errors, "record"), p) <= 2)
  /\ [](pc = "fallback" => blog.cause # "none")
  /\ [][\A p \in counted.fail :
          /\ Occurrences(counted'.bulk, p) = Occurrences(counted.bulk, p)
          /\ Occurrences(counted'.single, p) = Occurrences(counted.single, p)]_vars

\* a record went through a bulk insert and an individual insert and failed,
\* and a later batch was stored by its bulk insert
C20_Witness ==
  /\ pc = "done"
  /\ \E p \in counted.fail :
       /\ Includes(counted.bulk, p)
       /\ Includes(counted.single, p)
       /\ \E q \in counted.succ : q > p /\ ~Includes(counted.single, q)

\* the source positions a run has validated, submitted or counted so far
Touched ==
  Range(counted.bulk) \cup Range(counted.single) \cup counted.succ \cup counted.fail
    \cup Range(SeqField(stats.errors, "record"))

\* C21: a run works on one batch at a time: nothing of a later batch is
\* validated or submitted before the bulk insert and the individual inserts
\* of the current one are over, the individual inserts go one by one in
\* source order, and no storage call carries more than batchSize records.
C21_OneBatchAtATime ==
  /\ blog.B <= BatchSize(config) /\ blog.V <= blog.B
  /\ pc = "batch" => \A p \in Touched : p <= bi
  /\ pc = "fallback" =>
       /\ \A p \in Touched : p <= bi + BatchSize(config)
       /\ \A p \in Range(counted.single) : p <= bi + fi

\* the fallback of a batch is at its second record while a later batch waits
C21_Witness ==
  /\ pc = "fallback"
  /\ fi >= 1
  /\ Len(data) > bi + BatchSize(config)

\* smallest number of windows of the given size that cover n records
Ceil(n, size) == (n + size - 1) \div size

\* C22: when the batches are done the windows handed to processBatch are
\* ceil(n / batchSize) in number, the k-th starts at index (k - 1) * batchSize,
\* all but the last hold batchSize records and the last holds the rest, so
\* every record is in exactly one window.
C22_WindowsPartition ==
  (pc \in {"batch", "done"} /\ BatchesDone(data, bi) /\ stats.totalRecords = Len(data)) =>
    LET size == BatchSize(config)
        n == Len(data)
        w == counted.windows
    IN  /\ Len(w) = Ceil(n, size)
        /\ \A k \in 1..Len(w) :
             /\ w[k].start = (k - 1) * size
             /\ w[k].len = IF k < Len(w) THEN size ELSE n - (k - 1) * size
        /\ \A p \in 1..n :
             Cardinality({ k \in 1..Len(w) :
                             w[k].start < p /\ p <= w[k].start + w[k].len }) = 1

\* a run of three records in windows of two has ended
C22_Witness ==
  /\ pc = "done"
  /\ Len(counted.windows) >= 2
  /\ counted.windows[1].len > counted.windows[Len(counted.windows)].len

\* C23: a bulk insert that returns without throwing leaves every id it
\* returned tracked, successfulInserts greater by the number of documents it
\* returned, and failedInserts as it was.
C23_BulkSuccessTracked ==
  [][ (pc = "batch" /\ pc' = "batch" /\ bi' # bi /\ blog'.V > 0) =>
        /\ (stored' \ stored) \subseteq Range(tracker'.importedIds)
        /\ stats'.successfulInserts
             = stats.successfulInserts + Cardinality(stored' \ stored)
        /\ stats'.failedInserts = stats.failedInserts ]_vars

\* a bulk insert has just returned two documents
C23_Witness ==
  /\ pc = "batch"
  /\ blog.cause = "none"
  /\ blog.P >= 2
  /\ stats.successfulInserts = blog.succ0 + 2
  /\ Len(tracker.importedIds) = blog.ids0 + 2

\* the number a field parses to, 0 when it does not parse
ParsedOrZero(v) == OrElse(parseInt(v), Num(0))

\* C24: the canonical claims_filed is the parsed claims_filed of the record
\* when the record has that field (also when it is 0), else its parsed
\* insurance_claims when it has that one, else 0.
C24_ClaimsFiledPrecedence ==
  rec.done =>
    rec.claims_filed =
      IF rec.raw.claims_filed # Absent THEN ParsedOrZero(rec.raw.claims_filed)
      ELSE IF rec.raw.insurance_claims # Absent THEN ParsedOrZero(rec.raw.insurance_claims)
      ELSE Num(0)

\* C25: clearImportedData deletes no session whose tracked ids it did not
\* include in its entity deletion, so after it and a run beside it have
\* finished every document the run stored and tracked is deleted or listed in
\* a persisted session.
C25_ClearSparesLateSessions ==
  cpc = "done" =>
    /\ \A s \in cHist.sessions : Range(s.importedIds) \subseteq cIds
    /\ pc = "done" =>
         \A id \in Range(tracker.importedIds) :
           \/ id \notin { d.id : d \in coll[config.model] }
           \/ \E s \in sessions : id \in Range(s.importedIds)

\* the inserts of the call in progress, counted from its own records
OwnCounts ==
  [successfulInserts |-> Cardinality(counted.succ),
   failedInserts |-> Cardinality(counted.fail)]

\* C26: the counters an import() call returns count the records of that call
\* only, and the status of its session comes from its own inserts, also when
\* the importer has made import() calls before.
C26_CountsPerCall ==
  pc = "done" =>
    /\ stats.successfulInserts = OwnCounts.successfulInserts
    /\ stats.failedInserts = OwnCounts.failedInserts
    /\ stats.skippedRecords + stats.failedInserts = Len(stats.errors)
    /\ \A e \in Range(stats.errors) : e.record \in 1..Len(data) /\ e.data = data[e.record]
    /\ \A s \in OwnSessions : s.status = RunStatus(OwnCounts)

\* C27: at every point of a run stats.errors has skippedRecords +
\* failedInserts entries, and each entry's record number is the 1-based
\* source position of the record in its data field.
C27_ErrorsMatchCounts ==
  /\ Len(stats.errors) = stats.skippedRecords + stats.failedInserts
  /\ \A k \in 1..Len(stats.errors) :
       /\ stats.errors[k].record \in 1..Len(data)
       /\ stats.errors[k].data = data[stats.errors[k].record]

\* a run has an entry of a skipped record and an entry of a failed insert,
\* one of them from a batch after the first
C27_Witness ==
  /\ stats.skippedRecords > 0
  /\ stats.failedInserts > 0
  /\ \E k \in 1..Len(stats.errors) : stats.errors[k].record > BatchSize(config)

\* C28: every session BulkImporter persisted with status failed tracks no id,
\* so the ids of the completed and partial sessions of a kind are the ids of
\* all its sessions.
C28_FailedSessionsTrackNothing ==
  /\ \A s \in everSaved : s.status = "failed" => s.importedIds = <<>>
  /\ \A k \in Kinds : getImportedIds(sessions, k, NoType) = TrackedFor(sessions, k, NoType)

\* one importer has saved a failed session and then a session with ids
C28_Witness ==
  /\ \E s \in everSaved : s.status = "failed"
  /\ \E s \in everSaved : s.status # "failed" /\ s.importedIds # <<>>

\* C29: a run whose source cannot be loaded changes no collection, whatever
\* its configuration.
C29_AbortLeavesCollection ==
  [][file.state # "ok" => coll' = coll]_vars

\* C30: whatever batchSize the configuration gives, the window size of
\* processBatches is a positive integer and each turn of the batch loop moves
\* the index forward.
C30_WindowSizePositive ==
  /\ [](pc \in {"batch", "fallback"} => BatchSize(config) >= 1)
  /\ [][(pc \in {"batch", "fallback"} /\ bi' # bi) => bi' > bi]_vars

====
